---- MODULE Spec2Model ----
(***************************************************************************)
(* Process supervisor of the Minecraft server bot (src/bot.py).            *)
(*                                                                         *)
(* The supervisor state is the four module globals server_process,         *)
(* server_in_error, last_exit_code and last_status.  Command handlers are  *)
(* coroutines on one event loop: a handler runs atomically from one await  *)
(* to the next, and several handlers can be suspended at the same time.    *)
(* monitor_process runs on a thread of its own, one thread per spawned     *)
(* process, and interleaves with everything at statement granularity.      *)
(* Optional values (None / a value) are sequences of length 0 or 1.        *)
(***************************************************************************)
EXTENDS Integers, Sequences, FiniteSets, TLC

\* ---- bounds of the model ----
MaxTasks == 2
MaxProcs == 2
MaxCmds == 3
MaxAdds == 4
\* ConversationMemory.max_messages (50 in the program), scaled down
max_messages == 2

\* ---- program constants ----
KillSentinel == -1

Tasks == 1..MaxTasks
Pids == 1..MaxProcs
ExitCodes == {0, 1}
ForcedCodes == ExitCodes \ {0}
Channels == {1, 2}
Roles == {"user", "assistant"}
Contents == {"a", "b"}
Stamps == {0, 1}
None == <<>>
Some(x) == <<x>>

VARIABLES
    server_process,   \* None or Some(p): the Popen object held in the global
    server_in_error,  \* BOOLEAN
    last_exit_code,   \* None or Some(code)
    last_status,      \* None or Some(text): last presence text that was broadcast
    ready,            \* bot.is_ready() and bot.ws is not None
    proc,             \* the Popen objects that are still referenced or running
    mon,              \* the monitor_process thread of each such process
    task,             \* the command handlers in flight, oldest first
    loop,             \* setup_hook and the update_status task
    ncmd,             \* number of commands dispatched so far
    reply,            \* the final reply of the handler that returned in this step
    conversations,    \* ConversationMemory.conversations: channel -> list of entries
    added             \* history: per channel, the entries added since it was last cleared

vars == <<server_process, server_in_error, last_exit_code, last_status, ready,
          proc, mon, task, loop, ncmd, reply, conversations, added>>

IdleTask == [pc |-> "idle", kind |-> "none", h |-> None, res |-> "none",
             arg |-> None, txt |-> "", twin |-> "no"]
NoProc == [st |-> "unborn", code |-> None]
NoMon == [pc |-> "none", src |-> None, tgt |-> None]
MonDone == [NoMon EXCEPT !.pc = "done"]
NoReply == [kind |-> "none", res |-> "none", arg |-> None]
Response(kind, res, arg) == [kind |-> kind, res |-> res, arg |-> arg]

Init ==
    /\ server_process = None
    /\ server_in_error = FALSE
    /\ last_exit_code = None
    /\ last_status = None
    /\ ready = FALSE
    /\ proc = [p \in Pids |-> NoProc]
    /\ mon = [p \in Pids |-> NoMon]
    /\ task = [t \in Tasks |-> IdleTask]
    /\ loop = [pc |-> "boot", txt |-> ""]
    /\ ncmd = 0
    /\ reply = NoReply
    /\ conversations = <<>>
    /\ added = [c \in Channels |-> <<>>]

\* ---- helpers ----

\* Popen.poll() is None
Alive(h) == h # None /\ proc[h[1]].st = "alive"

server_running == Alive(server_process)

\* the mapping of update_status, refined by the handler that is between its
\* spawn and its re-check (Starting) or awaiting termination (Stopping)
Lifecycle ==
    IF server_in_error THEN "Error"
    ELSE IF server_running
         THEN IF \E t \in Tasks : task[t].pc = "s_grace" THEN "Starting"
              ELSE IF \E t \in Tasks : task[t].pc = "p_wait" THEN "Stopping"
              ELSE "Online"
         ELSE "Offline"

\* the mapping of status_cmd
StatusView ==
    IF server_running THEN "Online"
    ELSE IF server_in_error THEN "Error" ELSE "Offline"

\* line 534: the pid shown, None standing for the dash
StatusPid == IF server_running THEN server_process ELSE None

\* set_status(text) returns before the network call
Skips(ls, text) == Some(text) = ls \/ ~ready

\* last_status once the awaited change_presence has returned (ok) or raised
AfterPresence(txt, ok) == IF ok THEN Some(txt) ELSE last_status

\* a handler whose remaining code is set_status(text) and its final reply:
\* it suspends in change_presence, or sends the reply and returns
EndTask(rec, ls, text, res, arg) ==
    IF Skips(ls, text)
    THEN IdleTask
    ELSE [IdleTask EXCEPT !.pc = "fin_pres", !.kind = rec.kind, !.res = res,
                          !.arg = arg, !.txt = text]

EndReply(rec, ls, text, res, arg) ==
    IF Skips(ls, text) THEN Response(rec.kind, res, arg) ELSE NoReply

\* the handlers in flight keep their order; returned handlers leave the list
InFlight(rec) == rec.pc # "idle"
Compact(tk) ==
    LET busy == SelectSeq(tk, InFlight)
    IN IF \E t \in Tasks : ~InFlight(tk[t]) /\ \E u \in Tasks : u > t /\ InFlight(tk[u])
       THEN [i \in Tasks |-> IF i <= Len(busy) THEN busy[i] ELSE IdleTask]
       ELSE tk

\* monitor thread m with n of its reads of the global placed before a write
\* of the global; pr is the state of the processes at that write
CanPlace(m, n, pr) ==
    \/ n = 0
    \/ n = 1 /\ m.pc = "init"
    \/ n = 1 /\ m.pc = "drain" /\ pr[m.src[1]].st = "dead"
    \/ n = 2 /\ m.pc = "init" /\ server_process # None
             /\ pr[server_process[1]].st = "dead"

PlaceReads(m, n) ==
    IF n = 0 THEN m
    ELSE IF m.pc = "init" /\ n = 1
    THEN IF server_process = None
         THEN MonDone
         ELSE [NoMon EXCEPT !.pc = "drain", !.src = server_process]
    ELSE IF server_process = None
    THEN [NoMon EXCEPT !.pc = "flag"]
    ELSE [NoMon EXCEPT !.pc = "wait", !.tgt = server_process]

\* the monitor threads as a write of the global that changes it to sp can
\* find them
MonAtWrite(sp, pr) ==
    IF sp = server_process
    THEN {mon}
    ELSE {[p \in Pids |-> PlaceReads(mon[p], c[p])] :
            c \in {d \in [Pids -> 0..2] : \A p \in Pids : CanPlace(mon[p], d[p], pr)}}

\* the state after a step that leaves the global as sp, the processes as pr,
\* the monitor threads as mn and the handlers as tk
Settle(sp, pr, mn, tk) ==
    /\ server_process' = sp
    /\ proc' = pr
    /\ mon' = mn
    /\ task' = Compact(tk)

\* the reply of the handler that returned has reached the operator
Delivered == reply = NoReply

\* a command is dispatched to a new handler
Dispatch(t) ==
    /\ task[t].pc = "idle"
    /\ \A u \in Tasks : u < t => task[u].pc # "idle"
    /\ Delivered
    /\ loop.pc # "boot"
    /\ ncmd < MaxCmds
    /\ ncmd' = ncmd + 1
    /\ UNCHANGED <<conversations, added>>

\* a start handler between its liveness check (line 330) and its Popen (line 344)
PreSpawn == {"s_msg", "s_pres"}
PendingSpawns == Cardinality({t \in Tasks : task[t].pc \in PreSpawn})
\* number of processes spawned so far; pids are handed out in order
nproc == Cardinality({q \in Pids : proc[q].st # "unborn"})

\* History of concurrent starts, kept while a start handler is before its
\* spawn: twin is "dup" for a start accepted on an Offline supervisor while
\* another start handler had passed its liveness check and not yet spawned,
\* and "late" once the other handler of such a pair has spawned.
Twin(t) ==
    IF Lifecycle = "Offline" /\ \E u \in Tasks \ {t} : task[u].pc \in PreSpawn
    THEN "dup" ELSE "no"

\* handlers t and u are such a pair; handlers are numbered in order of arrival
Paired(t, u) ==
    /\ t # u
    /\ task[t].pc \in PreSpawn /\ task[u].pc \in PreSpawn
    /\ task[IF t > u THEN t ELSE u].twin = "dup"

\* ---- the supervised process (environment) ----

\* the process terminates by itself: a normal shutdown or a crash
ProcExit(p) ==
    /\ Delivered
    /\ proc[p].st = "alive"
    /\ \E c \in ExitCodes :
        Settle(server_process, [proc EXCEPT ![p] = [st |-> "dead", code |-> Some(c)]],
               mon, task)
    /\ reply' = NoReply
    /\ UNCHANGED <<server_in_error, last_exit_code, last_status, ready, loop, ncmd, conversations, added>>

\* ---- /start ----

\* StartReject with the flags of lines 337-338 cleared before the liveness check
StartRejectClears(t) ==
    /\ Dispatch(t)
    /\ server_running
    /\ last_exit_code' = None
    /\ reply' = Response("start", "AlreadyRunning", None)
    /\ UNCHANGED <<server_process, server_in_error, last_status,
                   ready, proc, mon, task, loop>>

\* server_running() holds: reply already_running and return
StartReject(t) ==
    /\ Dispatch(t)
    /\ server_running
    /\ reply' = Response("start", "AlreadyRunning", None)
    /\ UNCHANGED <<server_process, server_in_error, last_exit_code, last_status,
                   ready, proc, mon, task, loop>>

\* StartAccept that refuses to start over an error
StartAcceptUnlessError(t) ==
    /\ Dispatch(t)
    /\ ~server_running
    /\ ~server_in_error
    /\ nproc + PendingSpawns < MaxProcs
    /\ task' = [task EXCEPT ![t] = [IdleTask EXCEPT !.pc = "s_msg", !.kind = "start",
                                                     !.twin = Twin(t)]]
    /\ reply' = NoReply
    /\ UNCHANGED <<server_process, server_in_error, last_exit_code, last_status,
                   ready, proc, mon, loop>>

\* server_running() fails: the handler suspends in send_message(starting)
StartAccept(t) ==
    /\ Dispatch(t)
    /\ ~server_running
    /\ nproc + PendingSpawns < MaxProcs
    /\ task' = [task EXCEPT ![t] = [IdleTask EXCEPT !.pc = "s_msg", !.kind = "start",
                                                     !.twin = Twin(t)]]
    /\ reply' = NoReply
    /\ UNCHANGED <<server_process, server_in_error, last_exit_code, last_status,
                   ready, proc, mon, loop>>

\* SpawnSeg whose failure branch leaves the flag as line 337 set it
SpawnSegLeavesFlag(t, ls) ==
    /\ last_status' = ls
    /\ last_exit_code' = None
    /\ \E out \in {"ok", "LaunchNotFound", "SpawnError"} :
        IF out = "ok"
        THEN LET p == nproc + 1 IN
             /\ server_in_error' = FALSE
             /\ \E mn \in MonAtWrite(Some(p), proc) :
                    Settle(Some(p),
                           [proc EXCEPT ![p] = [st |-> "alive", code |-> None]],
                           [mn EXCEPT ![p] = [NoMon EXCEPT !.pc = "init"]],
                           [u \in Tasks |->
                                IF u = t THEN [task[t] EXCEPT !.pc = "s_grace", !.twin = "no"]
                                ELSE IF Paired(t, u) THEN [task[u] EXCEPT !.twin = "late"]
                                ELSE task[u]])
             /\ reply' = NoReply
        ELSE /\ server_in_error' = FALSE
             /\ Settle(server_process, proc, mon,
                       [task EXCEPT ![t] = EndTask(@, ls, "Error", out, None)])
             /\ reply' = EndReply(task[t], ls, "Error", out, None)
    /\ UNCHANGED <<ready, loop, ncmd, conversations, added>>

\* lines 337-362: clear the flags, Popen, start the monitor thread, sleep(3);
\* ls is last_status as set_status("Starting...") left it
SpawnSeg(t, ls) ==
    /\ last_status' = ls
    /\ last_exit_code' = None
    /\ \E out \in {"ok", "LaunchNotFound", "SpawnError"} :
        IF out = "ok"
        THEN LET p == nproc + 1 IN
             /\ server_in_error' = FALSE
             /\ \E mn \in MonAtWrite(Some(p), proc) :
                    Settle(Some(p),
                           [proc EXCEPT ![p] = [st |-> "alive", code |-> None]],
                           [mn EXCEPT ![p] = [NoMon EXCEPT !.pc = "init"]],
                           [u \in Tasks |->
                                IF u = t THEN [task[t] EXCEPT !.pc = "s_grace", !.twin = "no"]
                                ELSE IF Paired(t, u) THEN [task[u] EXCEPT !.twin = "late"]
                                ELSE task[u]])
             /\ reply' = NoReply
        ELSE /\ server_in_error' = TRUE
             /\ Settle(server_process, proc, mon,
                       [task EXCEPT ![t] = EndTask(@, ls, "Error", out, None)])
             /\ reply' = EndReply(task[t], ls, "Error", out, None)
    /\ UNCHANGED <<ready, loop, ncmd, conversations, added>>

\* send_message returned; set_status("Starting...") either returns at once or
\* suspends in change_presence
StartResume(t) ==
    /\ Delivered
    /\ task[t].pc = "s_msg"
    /\ IF Skips(last_status, "Starting...")
       THEN SpawnSeg(t, last_status)
       ELSE /\ task' = [task EXCEPT ![t] = [@ EXCEPT !.pc = "s_pres", !.txt = "Starting..."]]
            /\ reply' = NoReply
            /\ UNCHANGED <<server_process, server_in_error, last_exit_code, last_status,
                           ready, proc, mon, loop, ncmd, conversations, added>>

\* change_presence returned or raised
StartPresence(t) ==
    /\ Delivered
    /\ task[t].pc = "s_pres"
    /\ \E ok \in BOOLEAN : SpawnSeg(t, AfterPresence(task[t].txt, ok))

\* lines 364-404: the liveness re-check after the grace interval
StartGrace(t) ==
    /\ Delivered
    /\ task[t].pc = "s_grace"
    /\ LET end(text, res, arg) ==
            /\ Settle(server_process, proc, mon,
                      [task EXCEPT ![t] = EndTask(@, last_status, text, res, arg)])
            /\ reply' = EndReply(task[t], last_status, text, res, arg)
       IN IF server_running
          THEN /\ end("Online", "Started", None)
               /\ UNCHANGED <<server_in_error, last_exit_code>>
          ELSE IF server_process = None
          THEN \* server_process.returncode raises AttributeError (line 398)
               /\ server_in_error' = TRUE
               /\ end("Error", "StartError", None)
               /\ UNCHANGED last_exit_code
          ELSE /\ server_in_error' = TRUE
               /\ last_exit_code' = proc[server_process[1]].code
               /\ end("Error", "StartupFailed", proc[server_process[1]].code)
    /\ UNCHANGED <<last_status, ready, loop, ncmd, conversations, added>>

\* the trailing set_status of any handler: change_presence returned or raised,
\* the reply is sent and the handler returns
FinPresence(t) ==
    /\ Delivered
    /\ task[t].pc = "fin_pres"
    /\ \E ok \in BOOLEAN : last_status' = AfterPresence(task[t].txt, ok)
    /\ Settle(server_process, proc, mon, [task EXCEPT ![t] = IdleTask])
    /\ reply' = Response(task[t].kind, task[t].res, task[t].arg)
    /\ UNCHANGED <<server_in_error, last_exit_code, ready, loop, ncmd, conversations, added>>

\* ---- /stop ----

\* StopReject that drops a stale handle before replying
StopRejectClears(t) ==
    /\ Dispatch(t)
    /\ ~server_running
    /\ server_process' = None
    /\ mon' \in MonAtWrite(None, proc)
    /\ reply' = Response("stop", "NotRunning", None)
    /\ UNCHANGED <<server_in_error, last_exit_code, last_status,
                   ready, proc, task, loop>>

\* server_running() fails: reply not_running and return
StopReject(t) ==
    /\ Dispatch(t)
    /\ ~server_running
    /\ reply' = Response("stop", "NotRunning", None)
    /\ UNCHANGED <<server_process, server_in_error, last_exit_code, last_status,
                   ready, proc, mon, task, loop>>

\* server_running() holds: the handler suspends in send_message(stopping)
StopAccept(t) ==
    /\ Dispatch(t)
    /\ server_running
    /\ task' = [task EXCEPT ![t] = [IdleTask EXCEPT !.pc = "p_msg", !.kind = "stop"]]
    /\ reply' = NoReply
    /\ UNCHANGED <<server_process, server_in_error, last_exit_code, last_status,
                   ready, proc, mon, loop>>

\* SendSeg that reports a failed write without raising the error flag
SendSegKeepsFlag(t, ls) ==
    /\ last_status' = ls
    /\ \E wrote \in BOOLEAN :
        IF wrote /\ server_process # None
        THEN /\ task' = [task EXCEPT ![t] = [@ EXCEPT !.pc = "p_wait", !.h = server_process]]
             /\ reply' = NoReply
             /\ UNCHANGED <<server_process, server_in_error, proc, mon>>
        ELSE /\ UNCHANGED server_in_error
             /\ Settle(server_process, proc, mon,
                       [task EXCEPT ![t] = EndTask(@, ls, "Error", "SignalSendFailed", None)])
             /\ reply' = EndReply(task[t], ls, "Error", "SignalSendFailed", None)
    /\ UNCHANGED <<last_exit_code, ready, loop, ncmd, conversations, added>>

\* lines 424-439: write "stop\n" to the stdin of whatever server_process is
\* now, then hand server_process.wait to the executor.  The write raises when
\* the global is None; on a pipe it may raise or not.
SendSeg(t, ls) ==
    /\ last_status' = ls
    /\ \E wrote \in BOOLEAN :
        IF wrote /\ server_process # None
        THEN /\ task' = [task EXCEPT ![t] = [@ EXCEPT !.pc = "p_wait", !.h = server_process]]
             /\ reply' = NoReply
             /\ UNCHANGED <<server_process, server_in_error, proc, mon>>
        ELSE /\ server_in_error' = TRUE
             /\ Settle(server_process, proc, mon,
                       [task EXCEPT ![t] = EndTask(@, ls, "Error", "SignalSendFailed", None)])
             /\ reply' = EndReply(task[t], ls, "Error", "SignalSendFailed", None)
    /\ UNCHANGED <<last_exit_code, ready, loop, ncmd, conversations, added>>

\* send_message returned; set_status("Stopping...")
StopResume(t) ==
    /\ Delivered
    /\ task[t].pc = "p_msg"
    /\ IF Skips(last_status, "Stopping...")
       THEN SendSeg(t, last_status)
       ELSE /\ task' = [task EXCEPT ![t] = [@ EXCEPT !.pc = "p_pres", !.txt = "Stopping..."]]
            /\ reply' = NoReply
            /\ UNCHANGED <<server_process, server_in_error, last_exit_code, last_status,
                           ready, proc, mon, loop, ncmd, conversations, added>>

StopPresence(t) ==
    /\ Delivered
    /\ task[t].pc = "p_pres"
    /\ \E ok \in BOOLEAN : SendSeg(t, AfterPresence(task[t].txt, ok))

\* lines 440-441 and 455-464: the awaited wait returned the exit code in time;
\* the handler keeps the code for its reply and suspends again
StopExited(t) ==
    /\ Delivered
    /\ task[t].pc = "p_wait"
    /\ proc[task[t].h[1]].st = "dead"
    /\ LET code == proc[task[t].h[1]].code
           text == IF code # Some(0) THEN "Error" ELSE "Offline"
           res == IF code # Some(0) THEN "StoppedWithCode" ELSE "Stopped"
           rec == [task[t] EXCEPT !.res = res, !.arg = code, !.h = None]
       IN /\ last_exit_code' = code
          /\ server_in_error' = (code # Some(0))
          /\ Settle(server_process, proc, mon,
                    [task EXCEPT ![t] =
                        IF Skips(last_status, text)
                        THEN [rec EXCEPT !.pc = "p_fup"]
                        ELSE [rec EXCEPT !.pc = "p_pres2", !.txt = text]])
    /\ reply' = NoReply
    /\ UNCHANGED <<last_status, ready, loop, ncmd, conversations, added>>

\* change_presence of line 457/463 returned or raised; followup.send is awaited
StopPresence2(t) ==
    /\ Delivered
    /\ task[t].pc = "p_pres2"
    /\ \E ok \in BOOLEAN : last_status' = AfterPresence(task[t].txt, ok)
    /\ task' = [task EXCEPT ![t] = [@ EXCEPT !.pc = "p_fup", !.txt = ""]]
    /\ reply' = NoReply
    /\ UNCHANGED <<server_process, server_in_error, last_exit_code, ready, proc,
                   mon, loop, ncmd, conversations, added>>

\* line 466: followup.send returned; the handle is cleared and the handler returns
StopClear(t) ==
    /\ Delivered
    /\ task[t].pc = "p_fup"
    /\ \E mn \in MonAtWrite(None, proc) :
            Settle(None, proc, mn, [task EXCEPT ![t] = IdleTask])
    /\ reply' = Response("stop", task[t].res, task[t].arg)
    /\ UNCHANGED <<server_in_error, last_exit_code, last_status, ready, loop, ncmd, conversations, added>>

\* StopTimeout of a wait that has no timeout: the handler keeps waiting
StopTimeoutWaitsOn(t) ==
    /\ Delivered
    /\ task[t].pc = "p_wait"
    /\ proc[task[t].h[1]].st = "alive"
    /\ UNCHANGED vars

\* StopTimeout that clears the handle as the termination path does
StopTimeoutClears(t) ==
    /\ Delivered
    /\ task[t].pc = "p_wait"
    /\ proc[task[t].h[1]].st = "alive"
    /\ server_in_error' = TRUE
    /\ \E mn \in MonAtWrite(None, proc) :
            Settle(None, proc, mn,
                   [task EXCEPT ![t] = EndTask(@, last_status, "Error", "ShutdownTimeout", None)])
    /\ reply' = EndReply(task[t], last_status, "Error", "ShutdownTimeout", None)
    /\ UNCHANGED <<last_exit_code, last_status, ready, loop, ncmd, conversations, added>>

\* lines 442-448: wait_for timed out while the process was still running
StopTimeout(t) ==
    /\ Delivered
    /\ task[t].pc = "p_wait"
    /\ proc[task[t].h[1]].st = "alive"
    /\ server_in_error' = TRUE
    /\ Settle(server_process, proc, mon,
              [task EXCEPT ![t] = EndTask(@, last_status, "Error", "ShutdownTimeout", None)])
    /\ reply' = EndReply(task[t], last_status, "Error", "ShutdownTimeout", None)
    /\ UNCHANGED <<last_exit_code, last_status, ready, loop, ncmd, conversations, added>>

\* ---- /kill ----

KillReject(t) ==
    /\ Dispatch(t)
    /\ ~server_running
    /\ reply' = Response("kill", "NotRunning", None)
    /\ UNCHANGED <<server_process, server_in_error, last_exit_code, last_status,
                   ready, proc, mon, task, loop>>

\* lines 479-492: pid = server_process.pid; the handler suspends in
\* send_message(killing), in the executor call and in sleep(2)
KillAccept(t) ==
    /\ Dispatch(t)
    /\ server_running
    /\ task' = [task EXCEPT ![t] = [IdleTask EXCEPT !.pc = "k_wait", !.kind = "kill",
                                          !.h = server_process]]
    /\ reply' = NoReply
    /\ UNCHANGED <<server_process, server_in_error, last_exit_code, last_status,
                   ready, proc, mon, loop>>

\* kill_process_tree (lines 142-155) on the executor thread: taskkill ends the
\* process with that pid (when it times out or fails nothing changes)
KillTree(t) ==
    /\ Delivered
    /\ task[t].pc = "k_wait"
    /\ Alive(task[t].h)
    /\ \E c \in ForcedCodes :
        Settle(server_process,
               [proc EXCEPT ![task[t].h[1]] = [st |-> "dead", code |-> Some(c)]],
               mon, task)
    /\ reply' = NoReply
    /\ UNCHANGED <<server_in_error, last_exit_code, last_status, ready, loop, ncmd, conversations, added>>

\* KillClear that keeps the handle
KillClearKeepsHandle(pr, tk) ==
    /\ Settle(server_process, pr, mon, tk)
    /\ server_in_error' = FALSE

\* KillClear that leaves the error flag as it was
KillClearKeepsFlag(pr, tk) ==
    /\ \E mn \in MonAtWrite(None, pr) : Settle(None, pr, mn, tk)
    /\ UNCHANGED server_in_error

\* lines 510-511
KillClear(pr, tk) ==
    /\ \E mn \in MonAtWrite(None, pr) : Settle(None, pr, mn, tk)
    /\ server_in_error' = FALSE

\* lines 494-513 after the sleep: poll / kill / poll on whatever server_process
\* is now, then clear the handle and the error flag
KillFinish(t) ==
    /\ Delivered
    /\ task[t].pc = "k_wait"
    /\ LET tk == [task EXCEPT ![t] = EndTask(@, last_status, "Offline", "Killed", None)]
       IN IF server_process = None
          THEN \* AttributeError inside the inner try
               /\ last_exit_code' = Some(KillSentinel)
               /\ KillClear(proc, tk)
          ELSE LET q == server_process[1] IN
               IF proc[q].st = "alive"
               THEN \/ \* Popen.kill() succeeds; the second poll may come too early
                       \E c \in ForcedCodes :
                           /\ last_exit_code' \in {None, Some(c)}
                           /\ KillClear([proc EXCEPT ![q] = [st |-> "dead", code |-> Some(c)]], tk)
                    \/ \* Popen.kill() raises
                       /\ last_exit_code' = Some(KillSentinel)
                       /\ KillClear(proc, tk)
               ELSE /\ last_exit_code' = proc[q].code
                    /\ KillClear(proc, tk)
    /\ reply' = EndReply(task[t], last_status, "Offline", "Killed", None)
    /\ UNCHANGED <<last_status, ready, loop, ncmd, conversations, added>>

\* the awaited send of the final reply completes
Deliver ==
    /\ ~Delivered
    /\ reply' = NoReply
    /\ UNCHANGED <<server_process, server_in_error, last_exit_code, last_status,
                   ready, proc, mon, task, loop, ncmd, conversations, added>>

\* ---- /status ----

\* StatusCmd that is served only when no stop is waiting for termination
StatusCmdAfterStop(t) ==
    /\ \A u \in Tasks : task[u].pc # "p_wait"
    /\ Dispatch(t)
    /\ reply' = Response("status", "Status", Some(<<StatusView, StatusPid>>))
    /\ UNCHANGED <<server_process, server_in_error, last_exit_code, last_status,
                   ready, proc, mon, task, loop>>

\* StatusCmd that shows the pid of whatever handle is held
StatusCmdStalePid(t) ==
    /\ Dispatch(t)
    /\ reply' = Response("status", "Status", Some(<<StatusView, server_process>>))
    /\ UNCHANGED <<server_process, server_in_error, last_exit_code, last_status,
                   ready, proc, mon, task, loop>>

\* lines 523-565: read the state and reply
StatusCmd(t) ==
    /\ Dispatch(t)
    /\ reply' = Response("status", "Status", Some(<<StatusView, StatusPid>>))
    /\ UNCHANGED <<server_process, server_in_error, last_exit_code, last_status,
                   ready, proc, mon, task, loop>>

\* ---- monitor_process: the thread started for process p ----

\* monitor_process reads the global twice: at lines 165-169 (return when it
\* is None, else bind its stdout) and, once that stream has ended, at line
\* 174 (call .wait() on it).  What a read returns depends only on where it
\* falls among the writes of the global, so a read is placed when the global
\* is next written (MonAtWrite) or when the thread next writes (MonWrite,
\* MonEof, MonReadError): pc "init" is a thread whose first read is not yet
\* placed, pc "drain" one whose second read is not yet placed.

\* lines 165-167: the first read finds None and the thread returns
MonBegin(p) ==
    /\ Delivered
    /\ mon[p].pc = "init"
    /\ server_process = None
    /\ mon' = [mon EXCEPT ![p] = MonDone]
    /\ reply' = NoReply
    /\ UNCHANGED <<server_process, server_in_error, last_exit_code, last_status,
                   ready, proc, task, loop, ncmd, conversations, added>>

\* the stream the thread reads has ended (the process it belongs to is dead)
StreamEnded(m, pr) ==
    \/ m.pc = "drain" /\ pr[m.src[1]].st = "dead"
    \/ m.pc = "init" /\ server_process # None /\ pr[server_process[1]].st = "dead"

\* line 174 when the global is None: .wait() raises AttributeError and the
\* handler of lines 183-185 sets the flag
MonEof(p) ==
    /\ Delivered
    /\ mon[p].pc = "drain"
    /\ StreamEnded(mon[p], proc)
    /\ server_process = None
    /\ server_in_error' = TRUE
    /\ mon' = [mon EXCEPT ![p] = MonDone]
    /\ reply' = NoReply
    /\ UNCHANGED <<server_process, last_exit_code, last_status, ready, proc,
                   task, loop, ncmd, conversations, added>>

\* MonReadError whose handler only logs
MonReadErrorSilent(p) ==
    /\ Delivered
    /\ \/ mon[p].pc = "drain"
       \/ mon[p].pc = "init" /\ server_process # None
    /\ mon' = [mon EXCEPT ![p] = MonDone]
    /\ reply' = NoReply
    /\ UNCHANGED <<server_process, server_in_error, last_exit_code, last_status,
                   ready, proc, task, loop, ncmd, conversations, added>>

\* lines 169 and 183-185: reading a line raises (undecodable output)
MonReadError(p) ==
    /\ Delivered
    /\ \/ mon[p].pc = "drain"
       \/ mon[p].pc = "init" /\ server_process # None
    /\ server_in_error' = TRUE
    /\ mon' = [mon EXCEPT ![p] = MonDone]
    /\ reply' = NoReply
    /\ UNCHANGED <<server_process, last_exit_code, last_status, ready, proc,
                   task, loop, ncmd, conversations, added>>

\* the process whose exit code the thread is about to write
WaitTarget(m) ==
    IF m.pc = "wait" THEN m.tgt
    ELSE IF StreamEnded(m, proc) THEN server_process
    ELSE None

\* lines 174-175: wait() returns once the process it was called on has
\* terminated, and its exit code is written
MonWrite(p) ==
    /\ Delivered
    /\ Alive(WaitTarget(mon[p])) = FALSE
    /\ WaitTarget(mon[p]) # None
    /\ LET code == proc[WaitTarget(mon[p])[1]].code
       IN /\ last_exit_code' = code
          /\ mon' = [mon EXCEPT ![p] = IF code # Some(0)
                                       THEN [MonDone EXCEPT !.pc = "flag"]
                                       ELSE MonDone]
    /\ reply' = NoReply
    /\ UNCHANGED <<server_process, server_in_error, last_status, ready, proc,
                   task, loop, ncmd, conversations, added>>

\* lines 177-178, and line 185 after a .wait() on None
MonFlag(p) ==
    /\ Delivered
    /\ mon[p].pc = "flag"
    /\ server_in_error' = TRUE
    /\ mon' = [mon EXCEPT ![p] = MonDone]
    /\ reply' = NoReply
    /\ UNCHANGED <<server_process, last_exit_code, last_status, ready, proc,
                   task, loop, ncmd, conversations, added>>

\* ---- setup_hook and the periodic update_status ----

\* the text update_initial_status, update_status and personality_cmd request
MappedStatus ==
    IF server_in_error THEN "Error"
    ELSE IF server_running THEN "Online" ELSE "Offline"

\* SetupHook whose initial set_status does not test readiness
SetupHookBroadcasts ==
    /\ Delivered
    /\ loop.pc = "boot"
    /\ loop' = [loop EXCEPT !.pc = "boot_pres", !.txt = MappedStatus]
    /\ reply' = NoReply
    /\ UNCHANGED <<server_process, server_in_error, last_exit_code, last_status,
                   ready, proc, mon, task, ncmd, conversations, added>>

\* lines 197-221: update_initial_status, then update_status.start()
SetupHook ==
    /\ Delivered
    /\ loop.pc = "boot"
    /\ loop' = IF Skips(last_status, MappedStatus)
               THEN [loop EXCEPT !.pc = "waitready"]
               ELSE [loop EXCEPT !.pc = "boot_pres", !.txt = MappedStatus]
    /\ reply' = NoReply
    /\ UNCHANGED <<server_process, server_in_error, last_exit_code, last_status,
                   ready, proc, mon, task, ncmd, conversations, added>>

\* the gateway session becomes ready; before_status_loop returns
BotReady ==
    /\ Delivered
    /\ loop.pc = "waitready"
    /\ ~ready
    /\ ready' = TRUE
    /\ loop' = [loop EXCEPT !.pc = "idle"]
    /\ reply' = NoReply
    /\ UNCHANGED <<server_process, server_in_error, last_exit_code, last_status,
                   proc, mon, task, ncmd, conversations, added>>

\* LoopTick of a set_status that records the text before the call is made
LoopTickRecordsFirst ==
    /\ Delivered
    /\ loop.pc = "idle"
    /\ IF Skips(last_status, MappedStatus)
       THEN UNCHANGED <<loop, last_status>>
       ELSE /\ loop' = [loop EXCEPT !.pc = "pres", !.txt = MappedStatus]
            /\ last_status' = Some(MappedStatus)
    /\ reply' = NoReply
    /\ UNCHANGED <<server_process, server_in_error, last_exit_code,
                   ready, proc, mon, task, ncmd, conversations, added>>

\* lines 695-710: one iteration of update_status up to its await
LoopTick ==
    /\ Delivered
    /\ loop.pc = "idle"
    /\ loop' = IF Skips(last_status, MappedStatus)
               THEN loop
               ELSE [loop EXCEPT !.pc = "pres", !.txt = MappedStatus]
    /\ reply' = NoReply
    /\ UNCHANGED <<server_process, server_in_error, last_exit_code, last_status,
                   ready, proc, mon, task, ncmd, conversations, added>>

\* LoopPresence in which a failed broadcast ends the loop
LoopPresenceStops ==
    /\ Delivered
    /\ loop.pc = "pres"
    /\ \E ok \in BOOLEAN :
        /\ last_status' = AfterPresence(loop.txt, ok)
        /\ loop' = [loop EXCEPT !.pc = IF ok THEN "idle" ELSE "stopped"]
    /\ reply' = NoReply
    /\ UNCHANGED <<server_process, server_in_error, last_exit_code, ready, proc,
                   mon, task, ncmd, conversations, added>>

\* change_presence of the loop's set_status returned or raised
LoopPresence ==
    /\ Delivered
    /\ loop.pc = "pres"
    /\ \E ok \in BOOLEAN : last_status' = AfterPresence(loop.txt, ok)
    /\ loop' = [loop EXCEPT !.pc = "idle"]
    /\ reply' = NoReply
    /\ UNCHANGED <<server_process, server_in_error, last_exit_code, ready, proc,
                   mon, task, ncmd, conversations, added>>

\* ---- specification ----

Next ==
    \/ \E p \in Pids : ProcExit(p)
    \/ \E t \in Tasks : StartReject(t)
    \/ \E t \in Tasks : StartAccept(t)
    \/ \E t \in Tasks : StartResume(t)
    \/ \E t \in Tasks : StartPresence(t)
    \/ \E t \in Tasks : StartGrace(t)
    \/ \E t \in Tasks : FinPresence(t)
    \/ \E t \in Tasks : StopReject(t)
    \/ \E t \in Tasks : StopAccept(t)
    \/ \E t \in Tasks : StopResume(t)
    \/ \E t \in Tasks : StopPresence(t)
    \/ \E t \in Tasks : StopExited(t)
    \/ \E t \in Tasks : StopPresence2(t)
    \/ \E t \in Tasks : StopClear(t)
    \/ \E t \in Tasks : StopTimeout(t)
    \/ \E t \in Tasks : KillReject(t)
    \/ \E t \in Tasks : KillAccept(t)
    \/ \E t \in Tasks : KillTree(t)
    \/ \E t \in Tasks : KillFinish(t)
    \/ \E t \in Tasks : StatusCmd(t)
    \/ \E p \in Pids : MonBegin(p)
    \/ \E p \in Pids : MonEof(p)
    \/ \E p \in Pids : MonReadError(p)
    \/ \E p \in Pids : MonWrite(p)
    \/ \E p \in Pids : MonFlag(p)
    \/ SetupHook
    \/ Deliver
    \/ BotReady
    \/ LoopTick
    \/ LoopPresence

Spec == Init /\ [][Next]_vars

\* The supervisor commands while the gateway session is not ready: every
\* set_status returns at line 282 without awaiting, so handlers suspend only
\* in their replies, sleeps and executor calls.
NextSup ==
    \/ \E p \in Pids : ProcExit(p)
    \/ \E t \in Tasks : StartReject(t)
    \/ \E t \in Tasks : StartAccept(t)
    \/ \E t \in Tasks : StartResume(t)
    \/ \E t \in Tasks : StartGrace(t)
    \/ \E t \in Tasks : StopReject(t)
    \/ \E t \in Tasks : StopAccept(t)
    \/ \E t \in Tasks : StopResume(t)
    \/ \E t \in Tasks : StopExited(t)
    \/ \E t \in Tasks : StopClear(t)
    \/ \E t \in Tasks : StopTimeout(t)
    \/ \E t \in Tasks : KillReject(t)
    \/ \E t \in Tasks : KillAccept(t)
    \/ \E t \in Tasks : KillTree(t)
    \/ \E t \in Tasks : KillFinish(t)
    \/ \E p \in Pids : MonBegin(p)
    \/ \E p \in Pids : MonEof(p)
    \/ \E p \in Pids : MonReadError(p)
    \/ \E p \in Pids : MonWrite(p)
    \/ \E p \in Pids : MonFlag(p)
    \/ SetupHook
    \/ Deliver

SpecSup == Init /\ [][NextSup]_vars

TypeOK ==
    /\ server_process \in {None} \cup {Some(p) : p \in Pids}
    /\ server_in_error \in BOOLEAN
    /\ last_exit_code \in {None} \cup {Some(c) : c \in ExitCodes \cup {KillSentinel}}
    /\ ready \in BOOLEAN
    /\ ncmd \in 0..MaxCmds
    /\ \A t \in Tasks : task[t].pc = "idle" => \A u \in Tasks : u > t => task[u].pc = "idle"

\* ---- claims ----

Live == {"Starting", "Online", "Stopping"}

\* no handler is running and every monitor thread has returned
Quiescent ==
    /\ \A t \in Tasks : task[t].pc = "idle"
    /\ \A p \in Pids : mon[p].pc \in {"none", "done"}

\* C1: after every sequence of operations and relay events the process handle
\* is present if and only if the lifecycle is Starting, Online or Stopping.
C1_HandleIffLive == Quiescent => ((server_process # None) <=> (Lifecycle \in Live))

\* C2: after every sequence of operations and relay events last_exit_code is
\* None while the process handle is present.
C2_NoExitCodeWhileHeld == Quiescent => ((server_process # None) => (last_exit_code = None))

\* C3: of two start commands accepted concurrently on an Offline supervisor
\* at most one spawns a process.
C3_OneStartSpawns ==
    [][\A t \in Tasks :
            task[t].twin = "late" => ~(nproc' > nproc /\ task'[t].pc = "s_grace")]_vars

\* a handler that was accepted and has not reached its terminal outcome
Active(t) == task[t].pc \notin {"idle", "fin_pres"}

\* C4: while a start, stop or kill is in progress no other start, stop or kill
\* is accepted: two handlers are never in progress together.
C4_NoOverlap == \A t, u \in Tasks : (t # u) => ~(Active(t) /\ Active(u))

KillsInFlight == Cardinality({t \in Tasks : task[t].pc = "k_wait"})
StopsWaiting == Cardinality({t \in Tasks : task[t].pc = "p_wait"})

\* C5: the step in which an accepted kill returns leaves the handle cleared,
\* the error flag false and the lifecycle Offline, whatever the state before,
\* and replies Killed.
C5_KillEndsOffline ==
    [][KillsInFlight' < KillsInFlight
            => (/\ server_process' = None
                /\ ~server_in_error'
                /\ Lifecycle' = "Offline"
                /\ reply' = Response("kill", "Killed", None))]_vars

C5_Witness ==
    /\ reply = Response("kill", "Killed", None)
    /\ server_process = None /\ Lifecycle = "Offline"
    /\ \E c \in ForcedCodes : last_exit_code = Some(c)

\* C6: when the stop wait ends while the process is still running, stop
\* replies ShutdownTimeout, sets the error flag (lifecycle Error) and leaves
\* the process running and the handle as it was; a kill dispatched while the
\* lifecycle is Error with the process still running is accepted for that
\* process, and the step in which a kill returns clears the handle.
C6_TimeoutThenKill ==
    [][/\ (StopsWaiting' < StopsWaiting
              /\ \A t \in Tasks : task[t].pc = "p_wait" => Alive(task[t].h))
            => reply' = Response("stop", "ShutdownTimeout", None)
       /\ reply'.res = "ShutdownTimeout"
            => (/\ server_in_error' /\ Lifecycle' = "Error"
                /\ server_process' = server_process
                /\ proc' = proc)
       /\ (/\ ncmd' > ncmd /\ Lifecycle = "Error" /\ server_running
           /\ (reply'.kind = "kill" \/ KillsInFlight' > KillsInFlight))
            => \E t \in Tasks : /\ task[t].pc = "idle"
                                /\ task'[t].pc = "k_wait"
                                /\ task'[t].h = server_process
       /\ KillsInFlight' < KillsInFlight
            => (server_process' = None /\ reply'.res = "Killed")]_vars

C6_Witness ==
    /\ reply = Response("stop", "ShutdownTimeout", None)
    /\ server_in_error /\ Lifecycle = "Error"
    /\ server_running
    /\ ncmd < MaxCmds

\* C7: when the process exits with code 0 during the stop wait, the state
\* in which stop has returned has lifecycle Offline, the error flag false,
\* last_exit_code 0 and the handle cleared.
C7_CleanStop ==
    reply = Response("stop", "Stopped", Some(0))
        => (/\ Lifecycle = "Offline" /\ ~server_in_error
            /\ last_exit_code = Some(0) /\ server_process = None)

\* C8: when the process exits with a non-zero code during the stop wait, the
\* state in which stop has returned has lifecycle Error, the error flag true,
\* last_exit_code equal to that code and the handle cleared.
C8_FailedStop ==
    (reply.kind = "stop" /\ reply.res = "StoppedWithCode")
        => (/\ Lifecycle = "Error" /\ server_in_error
            /\ last_exit_code = reply.arg /\ server_process = None)

\* C9: start dispatched on an Online supervisor replies AlreadyRunning,
\* spawns nothing and leaves last_exit_code and the rest of the state as is.
C9_StartOnOnline ==
    [][(/\ ncmd' > ncmd /\ Lifecycle = "Online"
        /\ (reply'.kind = "start"
            \/ \E t \in Tasks : task[t].pc = "idle" /\ task'[t].kind = "start"))
            => (/\ reply' = Response("start", "AlreadyRunning", None)
                /\ UNCHANGED <<server_process, server_in_error, last_exit_code,
                               last_status, proc, mon, task>>)]_vars

C9_Witness ==
    /\ reply = Response("start", "AlreadyRunning", None)
    /\ Lifecycle = "Online" /\ nproc = 1

\* C10: stop dispatched on an Offline supervisor replies NotRunning and
\* leaves the handle, last_exit_code, the error flag and last_status as is.
C10_StopOnOffline ==
    [][(/\ ncmd' > ncmd /\ Lifecycle = "Offline"
        /\ (reply'.kind = "stop"
            \/ \E t \in Tasks : task[t].pc = "idle" /\ task'[t].kind = "stop"))
            => (/\ reply' = Response("stop", "NotRunning", None)
                /\ UNCHANGED <<server_process, server_in_error, last_exit_code,
                               last_status, proc, mon, task>>)]_vars

C10_Witness ==
    /\ reply = Response("stop", "NotRunning", None)
    /\ Lifecycle = "Offline" /\ server_process # None

\* C11: a kill that arrives while the lifecycle is Error and the handle of an
\* already dead process is still held is accepted: it is never answered
\* NotRunning in such a state (the rejection leaves the state as it found it).
C11_KillStaleError ==
    reply = Response("kill", "NotRunning", None)
        => ~(Lifecycle = "Error" /\ server_process # None)

StartsInGrace == Cardinality({t \in Tasks : task[t].pc = "s_grace"})

\* C12: when the process a start has spawned is dead with code c at the
\* re-check after the grace interval, the start replies StartupFailed{c} and
\* leaves the error flag set, last_exit_code = c and the lifecycle Error
\* (stated for the first process spawned, whose start handler is the only
\* one that can be in its grace interval).
C12_StartupFailed ==
    [][(/\ nproc = 1 /\ proc[1].st = "dead"
        /\ StartsInGrace = 1 /\ StartsInGrace' = 0)
            => (/\ reply' = Response("start", "StartupFailed", proc[1].code)
                /\ server_in_error'
                /\ last_exit_code' = proc[1].code
                /\ Lifecycle' = "Error")]_vars

\* a step of the monitor thread of process p (a handler that writes the
\* global changes server_process in the same step)
MonStep(p) == mon'[p] # mon[p] /\ server_process' = server_process

\* C13: once the global holds the handle of another, freshly started process,
\* the monitor thread of an earlier process changes neither last_exit_code
\* nor the error flag.
C13_StaleRelaySilent ==
    [][\A p \in Pids :
            (MonStep(p) /\ server_process # None /\ server_process # Some(p))
                => UNCHANGED <<last_exit_code, server_in_error>>]_vars

\* a kill, or a stop in its wait, is in flight for process p
Terminating(p) ==
    \E t \in Tasks : task[t].pc \in {"k_wait", "p_wait"} /\ task[t].h = Some(p)

\* C14: while a stop or kill is handling the termination of process p, the
\* monitor thread of p, having seen the stream close and a non-zero exit
\* code, does not set the error flag.
C14_RelayYieldsToKill ==
    [][\A p \in Pids :
            (MonStep(p) /\ mon[p].pc = "flag" /\ Terminating(p))
                => (server_in_error' => server_in_error)]_vars

\* NextSup when every line of the process output can be decoded: no read
\* of the monitor threads raises.
NextDecoded ==
    \/ \E p \in Pids : ProcExit(p)
    \/ \E t \in Tasks : StartReject(t)
    \/ \E t \in Tasks : StartAccept(t)
    \/ \E t \in Tasks : StartResume(t)
    \/ \E t \in Tasks : StartGrace(t)
    \/ \E t \in Tasks : StopReject(t)
    \/ \E t \in Tasks : StopAccept(t)
    \/ \E t \in Tasks : StopResume(t)
    \/ \E t \in Tasks : StopExited(t)
    \/ \E t \in Tasks : StopClear(t)
    \/ \E t \in Tasks : StopTimeout(t)
    \/ \E t \in Tasks : KillReject(t)
    \/ \E t \in Tasks : KillAccept(t)
    \/ \E t \in Tasks : KillTree(t)
    \/ \E t \in Tasks : KillFinish(t)
    \/ \E p \in Pids : MonBegin(p)
    \/ \E p \in Pids : MonEof(p)
    \/ \E p \in Pids : MonWrite(p)
    \/ \E p \in Pids : MonFlag(p)
    \/ SetupHook
    \/ Deliver

\* The monitor threads are scheduled by the operating system and the event
\* loop completes a pending send: each of their steps is eventually taken.
FairDecoded ==
    /\ Init /\ [][NextDecoded]_vars
    /\ WF_vars(Deliver)
    /\ \A p \in Pids : WF_vars(MonWrite(p)) /\ WF_vars(MonFlag(p))

\* process p, still held by the global, has died with the non-zero code c
\* while no handler is in flight and nothing has been recorded yet
DiedOnline(p, c) ==
    /\ server_process = Some(p)
    /\ proc[p] = [st |-> "dead", code |-> Some(c)]
    /\ \A t \in Tasks : task[t].pc = "idle"
    /\ ~server_in_error /\ last_exit_code = None

Recorded(c) ==
    last_exit_code = Some(c) /\ server_in_error /\ Lifecycle = "Error"

\* C15: when the process dies with a non-zero code while Online, then, unless
\* the operator issues another command first, the monitor thread eventually
\* has recorded that code and set the error flag (lifecycle Error); and a
\* process is spawned only by a start handler.
C15_DeathRecorded ==
    /\ \A p \in Pids : \A c \in ForcedCodes : \A n \in 0..MaxCmds :
            (DiedOnline(p, c) /\ ncmd = n) ~> (Recorded(c) \/ ncmd > n)
    /\ [][nproc' > nproc
            => \E t \in Tasks : task[t].pc \in PreSpawn /\ task'[t].pc = "s_grace"]_vars

\* the bounds of the model leave room for one more command and one more process
RoomLeft ==
    /\ loop.pc # "boot" /\ ncmd < MaxCmds
    /\ \E t \in Tasks : task[t].pc = "idle"
    /\ nproc + PendingSpawns < MaxProcs
CanIssue == Delivered /\ RoomLeft

C17_FlagClearedOnlyBy ==
    [][(server_in_error /\ ~server_in_error')
            => (nproc' > nproc \/ KillsInFlight' < KillsInFlight)]_vars

\* C18: a start that is rejected, or that fails to launch the process
\* (LaunchNotFound, SpawnError), leaves a recorded last_exit_code as it was,
\* also when it is the only command in progress and it raced no other start.
C18_FailedStartKeepsCode ==
    [][(/\ reply'.kind = "start" /\ reply' # reply
        /\ reply'.res \in {"AlreadyRunning", "LaunchNotFound", "SpawnError"}
        /\ \A u \in Tasks : task[u].twin = "no" /\ task'[u].pc = "idle"
        /\ last_exit_code # None)
            => last_exit_code' = last_exit_code]_vars

\* C19: stop dispatched while the lifecycle is anything but Online (Starting,
\* Stopping and Error included) replies NotRunning and leaves the handle,
\* last_exit_code, the error flag, last_status and the process as they are.
C19_StopOnlyOnline ==
    [][(/\ ncmd' > ncmd /\ Lifecycle # "Online"
        /\ (reply'.kind = "stop"
            \/ \E t \in Tasks : task[t].pc = "idle" /\ task'[t].kind = "stop"))
            => (/\ reply' = Response("stop", "NotRunning", None)
                /\ UNCHANGED <<server_process, server_in_error, last_exit_code,
                               last_status, proc, mon, task>>)]_vars

StopsSending == Cardinality({t \in Tasks : task[t].pc = "p_msg"})
\* C20: the step in which a stop handler attempts the write of the shutdown
\* line either starts its wait (the write went through) or, the write having
\* failed, replies SignalSendFailed with the error flag set and the lifecycle
\* Error, starts no wait and leaves the handle, the process and
\* last_exit_code as they were.
C20_SignalSendFailed ==
    [][StopsSending' < StopsSending
            => \/ StopsWaiting' > StopsWaiting /\ reply' = NoReply
               \/ /\ reply' = Response("stop", "SignalSendFailed", None)
                  /\ server_in_error' /\ Lifecycle' = "Error"
                  /\ StopsWaiting' = StopsWaiting
                  /\ UNCHANGED <<server_process, proc, last_exit_code>>]_vars

C20_Witness ==
    /\ reply = Response("stop", "SignalSendFailed", None)
    /\ server_in_error /\ Lifecycle = "Error"
    /\ server_running /\ StopsWaiting = 0
    /\ last_exit_code = None

\* C21: the step in which start replies LaunchNotFound sets the error flag and
\* makes the lifecycle Error; it spawns no process, starts no monitor thread,
\* puts no handler into the grace interval and leaves the handle as it was.
C21_LaunchNotFound ==
    [][(reply' # reply /\ reply' = Response("start", "LaunchNotFound", None))
            => (/\ server_in_error' /\ Lifecycle' = "Error"
                /\ nproc' = nproc
                /\ StartsInGrace' = StartsInGrace
                /\ UNCHANGED <<server_process, proc, mon>>)]_vars

C21_Witness ==
    /\ reply = Response("start", "LaunchNotFound", None)
    /\ server_in_error /\ Lifecycle = "Error"
    /\ nproc = 0 /\ server_process = None
    /\ \A p \in Pids : mon[p] = NoMon

\* The supervisor commands and /status while the gateway session is not ready
NextStatus ==
    \/ NextSup
    \/ \E t \in Tasks : StatusCmd(t)

SpecStatus == Init /\ [][NextStatus]_vars

\* a command can be dispatched within the bounds of the model
CanDispatch ==
    /\ Delivered /\ loop.pc # "boot" /\ ncmd < MaxCmds
    /\ \E t \in Tasks : task[t].pc = "idle"

\* C22: status can be answered in every state; the step that answers it
\* leaves the handle, last_exit_code, the error flag, last_status, the
\* process, the monitor threads and the other handlers as they were, and the
\* reply carries a pid only when the process is running, that of the handle.
C22_StatusPureRead ==
    /\ [](CanDispatch => ENABLED (\E t \in Tasks : StatusCmd(t)))
    /\ [][(reply' # reply /\ reply'.kind = "status")
            => (/\ reply'.res = "Status"
                /\ UNCHANGED <<server_process, last_exit_code, server_in_error,
                               last_status, proc, mon, task>>
                /\ reply'.arg[1][1] = StatusView
                /\ reply'.arg[1][2] # None
                        => (server_running /\ reply'.arg[1][2] = server_process))]_vars

C22_Witness ==
    /\ reply = Response("status", "Status", Some(<<"Error", None>>))
    /\ server_process # None /\ server_in_error
    /\ last_exit_code # None

\* no handler is in progress
Serial == \A t \in Tasks : task[t].pc = "idle"

\* The whole bot, gateway session and status loop included, when commands are
\* issued one at a time (a command arrives only after the handler before it
\* has returned) and every line of the process output can be decoded.
NextPresence ==
    \/ \E p \in Pids : ProcExit(p)
    \/ Serial /\ \E t \in Tasks : StartReject(t)
    \/ Serial /\ \E t \in Tasks : StartAccept(t)
    \/ \E t \in Tasks : StartResume(t)
    \/ \E t \in Tasks : StartPresence(t)
    \/ \E t \in Tasks : StartGrace(t)
    \/ \E t \in Tasks : FinPresence(t)
    \/ Serial /\ \E t \in Tasks : StopReject(t)
    \/ Serial /\ \E t \in Tasks : StopAccept(t)
    \/ \E t \in Tasks : StopResume(t)
    \/ \E t \in Tasks : StopPresence(t)
    \/ \E t \in Tasks : StopExited(t)
    \/ \E t \in Tasks : StopPresence2(t)
    \/ \E t \in Tasks : StopClear(t)
    \/ \E t \in Tasks : StopTimeout(t)
    \/ Serial /\ \E t \in Tasks : KillReject(t)
    \/ Serial /\ \E t \in Tasks : KillAccept(t)
    \/ \E t \in Tasks : KillTree(t)
    \/ \E t \in Tasks : KillFinish(t)
    \/ \E p \in Pids : MonBegin(p)
    \/ \E p \in Pids : MonEof(p)
    \/ \E p \in Pids : MonWrite(p)
    \/ \E p \in Pids : MonFlag(p)
    \/ SetupHook
    \/ Deliver
    \/ BotReady
    \/ LoopTick
    \/ LoopPresence

SpecPresence == Init /\ [][NextPresence]_vars

\* the texts of the change_presence calls now awaited, by handlers and by the loop
CallsInFlight ==
    {task[t].txt : t \in {u \in Tasks : task[u].pc \in {"s_pres", "p_pres", "p_pres2", "fin_pres"}}}
        \cup (IF loop.pc \in {"boot_pres", "pres"} THEN {loop.txt} ELSE {})

\* C23: a network broadcast never repeats the text of the broadcast before
\* it: no change_presence call that is awaited carries the text last_status
\* already holds (such a call, once it returns, is a second broadcast of the
\* same text in a row).
C23_NoRepeatedBroadcast == \A x \in CallsInFlight : last_status # Some(x)

FinalCalls == Cardinality({t \in Tasks : task[t].pc = "fin_pres"})
\* C24: whenever the status loop is between two iterations its next
\* iteration can run; the step in which the loop's broadcast returns or fails
\* puts the loop back between iterations, and the step in which a handler's
\* last broadcast returns or fails sends the reply the handler had prepared.
C24_BroadcastFailureContained ==
    /\ []((loop.pc = "idle" /\ Delivered) => ENABLED LoopTick)
    /\ [][(loop.pc = "pres" /\ loop' # loop) => loop'.pc = "idle"]_vars
    /\ [][FinalCalls' < FinalCalls
            => \E t \in Tasks : /\ task[t].pc = "fin_pres"
                                /\ task[t].res # "none"
                                /\ reply' = Response(task[t].kind, task[t].res, task[t].arg)]_vars

\* the Online broadcast of a start failed and the start replied Started
C24_Witness ==
    /\ reply = Response("start", "Started", None)
    /\ ready /\ last_status # Some("Online")
    /\ loop.pc = "idle"

\* C25: when the tree termination did not end the process (taskkill timed
\* out or failed: the process is still running when the handler resumes),
\* the step in which kill returns still clears the handle and the error flag,
\* leaves the lifecycle Offline and replies Killed.
C25_KillCompletesAnyway ==
    [][(/\ KillsInFlight' < KillsInFlight
        /\ \A t \in Tasks : task[t].pc = "k_wait" => Alive(task[t].h))
            => (/\ server_process' = None
                /\ ~server_in_error'
                /\ Lifecycle' = "Offline"
                /\ reply'.res = "Killed")]_vars

\* taskkill failed and Popen.kill() raised: kill has returned all the same
C25_Witness ==
    /\ reply = Response("kill", "Killed", None)
    /\ server_process = None /\ ~server_in_error
    /\ nproc = 1 /\ proc[1].st = "alive"
    /\ last_exit_code = Some(KillSentinel)

\* C26: when the monitor thread of process p has collected the exit code of
\* p (the stream of p has ended and wait() on p has returned) and returns,
\* the handle no longer refers to p.
C26_RelayClearsHandle ==
    [][\A p \in Pids :
            (/\ MonStep(p)
             /\ WaitTarget(mon[p]) = Some(p)
             /\ last_exit_code' = proc[p].code
             /\ mon'[p].pc = "done")
                => server_process' # Some(p)]_vars

\* C27: every spawned process that is still running is the one the handle
\* refers to (so at most one is running): none runs while the handle is
\* empty or refers to another process.
C27_NoOrphan == \A p \in Pids : proc[p].st = "alive" => server_process = Some(p)

\* one command was dispatched since the start that spawned the first
\* process and it has returned with the handle cleared, the error flag false
\* and the process dead with a non-zero code: it was a kill (a stop that
\* collects a non-zero code sets the flag)
KilledInGrace ==
    /\ nproc = 1 /\ ncmd = 2
    /\ StartsInGrace = 1 /\ KillsInFlight = 0
    /\ server_process = None /\ ~server_in_error
    /\ proc[1].st = "dead" /\ proc[1].code \in {Some(c) : c \in ForcedCodes}

\* C28: when a kill has run to completion during the grace interval of a
\* start, the step in which that start resumes and returns leaves the error
\* flag false and the lifecycle Offline.
C28_KillDuringGrace ==
    [][(KilledInGrace /\ StartsInGrace' = 0)
            => (~server_in_error' /\ Lifecycle' = "Offline")]_vars

\* a start handler resumes from its grace interval and finds a running process
RecheckAlive == server_running /\ \E u \in Tasks : task[u].pc = "s_grace"

\* two starts raced, each spawned a process and both are in their grace
\* interval; the first process has died, the second is running
RacedGrace ==
    /\ nproc = 2 /\ ncmd = 2 /\ StartsInGrace = 2
    /\ proc[1].st = "dead" /\ proc[2].st = "alive"

\* handler t can resume from its grace interval and reply Started
CanReportStarted(t) ==
    ENABLED (StartGrace(t) /\ reply' = Response("start", "Started", None))

\* C29: the step that spawns the process reports nothing yet: it leaves the
\* lifecycle Starting with the monitor thread of the new process started.
\* A start handler comes to request the Online presence, and the reply
\* Started is decided, only in a step in which a handler resumes from the
\* grace interval and finds a process running; and the process it finds is
\* the one it spawned: of two handlers in their grace interval whose first
\* process has died, one cannot report success.
C29_SuccessAfterGrace ==
    /\ [][nproc' > nproc
            => (/\ Lifecycle' = "Starting"
                /\ mon'[nproc'].pc = "init"
                /\ reply' = NoReply
                /\ \A t \in Tasks : task'[t].txt # "Online")]_vars
    /\ [][\A t \in Tasks :
            (/\ task'[t].kind = "start"
             /\ task'[t].txt = "Online" \/ task'[t].res = "Started"
             /\ \A u \in Tasks : task[u] # task'[t])
                => RecheckAlive]_vars
    /\ [][(reply' # reply /\ reply' = Response("start", "Started", None))
            => \/ RecheckAlive
               \/ \E u \in Tasks : task[u].pc = "fin_pres" /\ task[u].res = "Started"]_vars
    /\ []((RacedGrace /\ Delivered) => \E t \in Tasks : task[t].pc = "s_grace" /\ ~CanReportStarted(t))

\* the processes the kill handlers in progress were accepted for
Tracked == {task[t].h : t \in {u \in Tasks : task[u].pc = "k_wait"}}

StopsReplying == Cardinality({t \in Tasks : task[t].pc = "p_fup"})
\* C30: a kill clears the handle only in the step in which it returns, after
\* the tree termination, the sleep and the re-sample; in that step a process
\* found dead is left alone and its exit code recorded, and the direct signal
\* ends only a process that a kill was accepted for.
C30_KillEscalation ==
    /\ [][(server_process # None /\ server_process' = None)
            => (KillsInFlight' < KillsInFlight \/ StopsReplying' < StopsReplying)]_vars
    /\ [][(/\ KillsInFlight' < KillsInFlight
           /\ server_process # None /\ ~server_running)
            => (proc' = proc /\ last_exit_code' = proc[server_process[1]].code)]_vars
    /\ [][KillsInFlight' < KillsInFlight
            => \A p \in Pids : proc'[p] # proc[p] => Some(p) \in Tracked]_vars

\* The event loop resumes a stop handler whose awaited send has completed,
\* whose wait has returned or whose wait_for timer has expired, and it
\* completes a pending send: each of these steps is eventually taken.
FairStop ==
    /\ Init /\ [][NextSup]_vars
    /\ WF_vars(Deliver)
    /\ \A t \in Tasks :
        /\ WF_vars(StopResume(t))
        /\ WF_vars(StopExited(t) \/ StopTimeout(t))
        /\ WF_vars(StopClear(t))

StopsInFlight == Cardinality({t \in Tasks : task[t].kind = "stop" /\ task[t].pc # "idle"})
\* C31: every accepted stop returns: whenever stop handlers are in progress,
\* eventually none is, whether or not the process ever exits; a handler
\* waiting for termination can always take its next step, and the reply of a
\* stop that was accepted is one of its outcomes.
C31_StopTerminates ==
    /\ (StopsInFlight > 0) ~> (StopsInFlight = 0)
    /\ [](\A t \in Tasks : (task[t].pc = "p_wait" /\ Delivered)
            => ENABLED (StopExited(t) \/ StopTimeout(t)))
    /\ [][(StopsInFlight' < StopsInFlight)
            => (/\ reply'.kind = "stop"
                /\ reply'.res \in {"Stopped", "StoppedWithCode", "ShutdownTimeout",
                                   "SignalSendFailed"})]_vars

\* a stop has timed out on a process that is still running
C31_Witness ==
    /\ reply = Response("stop", "ShutdownTimeout", None)
    /\ StopsInFlight = 0
    /\ nproc = 1 /\ proc[1].st = "alive"
    /\ ncmd = 2

\* C32: while a stop handler waits for the process to terminate a status
\* command can be served, and the step that answers it leaves the stop
\* waiting and the process as it is.
C32_StatusDuringStop ==
    /\ []((StopsWaiting > 0 /\ CanDispatch) => ENABLED (\E t \in Tasks : StatusCmd(t)))
    /\ [][(reply' # reply /\ reply'.kind = "status" /\ StopsWaiting > 0)
            => (StopsWaiting' = StopsWaiting /\ proc' = proc)]_vars

C32_Witness ==
    /\ reply = Response("status", "Status", Some(<<"Online", Some(1)>>))
    /\ StopsWaiting = 1
    /\ proc[1].st = "alive"

\* the thread of p returns from inside its try block (it had found the
\* global set, or was already reading)
MonReturns(p) ==
    /\ MonStep(p)
    /\ mon'[p].pc = "done"
    /\ mon[p].pc \in {"init", "drain", "wait", "flag"}
    /\ ~(mon[p].pc = "init" /\ server_process = None)

\* the thread of p returns having written the exit code 0 of the process it waited for
MonReturnsClean(p) ==
    /\ WaitTarget(mon[p]) # None
    /\ ~Alive(WaitTarget(mon[p]))
    /\ proc[WaitTarget(mon[p])[1]].code = Some(0)
    /\ last_exit_code' = Some(0)

\* C33: a monitor thread that returns from its try block either has collected
\* the exit code 0, or leaves the error flag set and the lifecycle Error (a
\* read that raised, a wait that raised, a non-zero code); and when the thread
\* of a dead process has returned and the handle still refers to that
\* process, neither the lifecycle nor the status command says Online.
C33_RelayErrorRecorded ==
    /\ [][\A p \in Pids :
            MonReturns(p)
                => \/ MonReturnsClean(p)
                   \/ server_in_error' /\ Lifecycle' = "Error"]_vars
    /\ [](\A p \in Pids :
            (mon[p].pc = "done" /\ proc[p].st = "dead" /\ server_process = Some(p))
                => (Lifecycle \in {"Error", "Offline"} /\ StatusView # "Online"))

\* reading the output of the running process raised
C33_Witness ==
    /\ mon[1] = MonDone /\ proc[1].st = "alive"
    /\ server_process = Some(1)
    /\ server_in_error /\ Lifecycle = "Error"
    /\ last_exit_code = None

\* C34: while the gateway session is not ready no change_presence call is
\* awaited, the status loop has not begun to iterate, and no step (a
\* set_status request of a handler or of setup_hook among them) changes
\* last_status.
C34_NothingBeforeReady ==
    /\ [](~ready => (CallsInFlight = {} /\ loop.pc \in {"boot", "waitready"}))
    /\ [][~ready => last_status' = last_status]_vars

\* a start has run to its success reply, requesting Starting... and Online,
\* before the session was ready
C34_Witness ==
    /\ ~ready /\ loop.pc = "waitready"
    /\ reply = Response("start", "Started", None)
    /\ last_status = None

\* the loop's change_presence call returns without raising
LoopPresenceOk == LoopPresence /\ last_status' = Some(loop.txt)

\* The host runs setup_hook and signals readiness, the event loop completes
\* pending sends and runs update_status every interval, and the gateway,
\* asked again and again, does not fail for ever.
FairLoop ==
    /\ Init /\ [][NextPresence]_vars
    /\ WF_vars(SetupHook) /\ WF_vars(BotReady) /\ WF_vars(Deliver)
    /\ WF_vars(LoopTick)
    /\ SF_vars(LoopPresenceOk)

StatusContext ==
    IF server_running THEN "Online"
    ELSE IF server_in_error THEN "Error" ELSE "Offline"

\* C36: in every reachable state the lifecycle status_cmd reports, and the
\* one the AI context reports, is the text the status loop would broadcast
\* for that state.
C36_StatusMatchesLoop ==
    /\ StatusView = MappedStatus
    /\ StatusContext = MappedStatus

\* ---- ConversationMemory (ai.py) ----

\* the entries on_message appends (lines 387-388): the user's message under
\* the author's name and the reply under the default username, each with the
\* isoformat of the wall clock
Entries ==
    {[role |-> r, content |-> x,
      username |-> IF r = "user" THEN "author" ELSE "",
      timestamp |-> s] : r \in Roles, x \in Contents, s \in Stamps}

\* Python's lst[-n:]
LastSlice(lst, n) ==
    IF n = 0 \/ n >= Len(lst) THEN lst
    ELSE SubSeq(lst, Len(lst) - n + 1, Len(lst))

\* Python's lst[:n]
FirstSlice(lst, n) ==
    IF n >= Len(lst) THEN lst ELSE SubSeq(lst, 1, n)

\* add_message whose trim keeps the head of the list
add_message_head(conv, channel_id, entry) ==
    LET made == IF channel_id \in DOMAIN conv
                THEN conv
                ELSE [c \in DOMAIN conv \cup {channel_id} |->
                         IF c = channel_id THEN <<>> ELSE conv[c]]
        appended == [made EXCEPT ![channel_id] = Append(@, entry)]
    IN  IF Len(appended[channel_id]) > max_messages
        THEN [appended EXCEPT ![channel_id] = FirstSlice(@, max_messages)]
        ELSE appended

\* the whole of add_message
add_message(conv, channel_id, entry) ==
    LET made == IF channel_id \in DOMAIN conv
                THEN conv
                ELSE [c \in DOMAIN conv \cup {channel_id} |->
                         IF c = channel_id THEN <<>> ELSE conv[c]]
        appended == [made EXCEPT ![channel_id] = Append(@, entry)]
    IN  IF Len(appended[channel_id]) > max_messages
        THEN [appended EXCEPT ![channel_id] = LastSlice(@, max_messages)]
        ELSE appended

\* get_history(channel_id, limit)
get_history(channel_id, limit) ==
    IF channel_id \notin DOMAIN conversations THEN <<>>
    ELSE LastSlice(conversations[channel_id], limit)

AddsSoFar(c) == Len(added[c])
RECURSIVE TotalAdds(_)
TotalAdds(S) ==
    IF S = {} THEN 0
    ELSE LET c == CHOOSE x \in S : TRUE IN AddsSoFar(c) + TotalAdds(S \ {c})

MemIdle ==
    UNCHANGED <<server_process, server_in_error, last_exit_code, last_status,
                ready, proc, mon, task, loop, ncmd, reply>>

AddMessage(c, e) ==
    /\ TotalAdds(Channels) < MaxAdds
    /\ conversations' = add_message(conversations, c, e)
    /\ added' = [added EXCEPT ![c] = Append(@, e)]
    /\ MemIdle

\* clear_history(channel_id)
ClearHistory(c) ==
    /\ conversations' = IF c \in DOMAIN conversations
                        THEN [d \in DOMAIN conversations \ {c} |-> conversations[d]]
                        ELSE conversations
    /\ added' = [added EXCEPT ![c] = <<>>]
    /\ MemIdle

NextMemory ==
    \/ \E c \in Channels, e \in Entries : AddMessage(c, e)
    \/ \E c \in Channels : ClearHistory(c)

SpecMemory == Init /\ [][NextMemory]_vars

\* what the memory holds for a channel: None when the channel has no key
Stored(c) == IF c \in DOMAIN conversations THEN Some(conversations[c]) ELSE None

Smaller(a, b) == IF a < b THEN a ELSE b

\* C37: every stored conversation has at most max_messages entries, and they
\* are the entries most recently added to that channel, in the order they
\* were added; a step that adds to one channel leaves what is stored for
\* every other channel as it was.
C37_MemoryBounded ==
    /\ [](\A c \in DOMAIN conversations :
            LET n == Len(conversations[c])
                k == AddsSoFar(c)
            IN  /\ n <= max_messages
                /\ n = Smaller(k, max_messages)
                /\ \A i \in 1..n : conversations[c][i] = added[c][k - n + i]
                /\ get_history(c, n) = conversations[c])
    /\ [](\A c \in Channels \ DOMAIN conversations : AddsSoFar(c) = 0)
    /\ [][\A c \in Channels : AddsSoFar(c)' > AddsSoFar(c)
            => \A d \in Channels \ {c} : Stored(d)' = Stored(d)]_vars

\* channel 1 has had one entry more than it can hold, channel 2 holds one
C37_Witness ==
    /\ AddsSoFar(1) = max_messages + 1
    /\ Stored(1) # None /\ Len(conversations[1]) = max_messages
    /\ conversations[1][1] # added[1][1]
    /\ Stored(2) # None /\ Len(conversations[2]) = 1

====
